---------------------------- MODULE Spec2Model ----------------------------
(***************************************************************************)
(* A model of the jerboa/qalo interpreter core: the Pratt parser of        *)
(* src/src/parser.rs and the tree-walking evaluator of                     *)
(* src/src/evaluator.rs, with the runtime values of src/src/object.rs.     *)
(*                                                                         *)
(* The evaluator is a depth-first recursive walk over the AST that mutates *)
(* three pieces of state: the heap of shared environment frames            *)
(* (Rc<RefCell<Environment>>), the current frame `env` and the pending     *)
(* return `returned_value`.  Each eval_* method is an operator that takes  *)
(* the evaluator state and returns a result holding the state it leaves    *)
(* behind, on the error path too (the `?` operator returns early and       *)
(* leaves every assignment made so far in place).                          *)
(***************************************************************************)
EXTENDS Integers, Sequences, FiniteSets, TLC

VARIABLES
    input,            \* the token stream the lexer hands to the parser
    program,          \* Program(Vec<Statement>) produced by parse_program
    idx,              \* position of eval_program's `for` loop in program.0
    objects,          \* eval_program's `objects` vector
    outcome,          \* "parsing", "running", "ok", "err" or "panic"
    error,            \* the EvalError returned, NoError before that
    heap,             \* every Environment frame allocated so far
    env,              \* Evaluator::env, an index in heap
    returned_value,   \* Evaluator::returned_value, <<>> is None, <<o>> is Some(o)
    log,              \* ghost: the AST nodes handed to eval_statement / eval_expression, in order
    overflow_checks   \* build profile: TRUE panics on i32 overflow, FALSE wraps

vars == <<input, program, idx, objects, outcome, error, heap, env,
          returned_value, log, overflow_checks>>

---------------------------------------------------------------------------
(* i32 arithmetic.                                                         *)

MaxInt == 2147483647
MinInt == -MaxInt - 1

\* lhs + rhs leaves the i32 range
AddOverflows(lhs, rhs) ==
    \/ rhs > 0 /\ lhs > MaxInt - rhs
    \/ rhs < 0 /\ lhs < MinInt - rhs

\* two's complement lhs + rhs, computed without leaving the i32 range
WrappingAdd(lhs, rhs) ==
    IF ~AddOverflows(lhs, rhs) THEN lhs + rhs
    ELSE IF rhs > 0 THEN (lhs + MinInt) + (rhs + MinInt)
    ELSE (lhs - MinInt) + (rhs - MinInt)

\* two's complement -v
WrappingNeg(v) == IF v = MinInt THEN MinInt ELSE -v

SubOverflows(lhs, rhs) ==
    \/ rhs > 0 /\ lhs < MinInt + rhs
    \/ rhs < 0 /\ lhs > MaxInt + rhs

WrappingSub(lhs, rhs) ==
    IF ~SubOverflows(lhs, rhs) THEN lhs - rhs
    ELSE IF rhs = MinInt THEN WrappingAdd(lhs, MinInt)
    ELSE WrappingAdd(lhs, -rhs)

Abs(v) == IF v < 0 THEN -v ELSE v

\* truncating quotient of lhs / rhs; rhs # 0 and not (MinInt, -1)
TruncDiv(lhs, rhs) ==
    IF rhs = MinInt THEN (IF lhs = MinInt THEN 1 ELSE 0)
    ELSE LET floor == lhs \div Abs(rhs)
             t == IF lhs < 0 /\ lhs % Abs(rhs) # 0 THEN floor + 1 ELSE floor
         IN  IF rhs < 0 THEN -t ELSE t

\* remainder with the sign of the dividend
TruncRem(lhs, rhs) == lhs - TruncDiv(lhs, rhs) * rhs

\* lhs * rhs leaves the i32 range
MulOverflows(lhs, rhs) ==
    IF lhs = 0 \/ rhs = 0 \/ lhs = 1 \/ rhs = 1 THEN FALSE
    ELSE IF lhs = MinInt \/ rhs = MinInt THEN TRUE
    ELSE IF (lhs > 0) = (rhs > 0) THEN Abs(lhs) > MaxInt \div Abs(rhs)
    ELSE /\ Abs(lhs) > MaxInt \div Abs(rhs)
         /\ ~(MinInt \div Abs(rhs) = -Abs(lhs) /\ (-Abs(lhs)) * Abs(rhs) = MinInt)

\* the low 16 bits of x * y, for x and y in 0 .. 65535
LowMul16(x, y) ==
    ((x % 256) * (y % 256)
     + ((((x \div 256) * (y % 256) + (x % 256) * (y \div 256)) % 256) * 256)) % 65536

\* two's complement lhs * rhs: the low 32 bits of the product, from 16-bit
\* halves so that no intermediate value leaves the i32 range
WrappingMul(lhs, rhs) ==
    LET a0 == lhs % 65536
        a1 == (lhs \div 65536) % 65536
        b0 == rhs % 65536
        b1 == (rhs \div 65536) % 65536
        t0 == (a0 % 256) * (b0 % 256)
        t1 == (a0 \div 256) * (b0 % 256) + (a0 % 256) * (b0 \div 256)
        t2 == (a0 \div 256) * (b0 \div 256)
        s == t0 + (t1 % 256) * 256
        lo == s % 65536
        hi == ((s \div 65536) + (t1 \div 256) + t2 + LowMul16(a1, b0) + LowMul16(a0, b1))
              % 65536
    IN  IF hi >= 32768 THEN (hi - 65536) * 65536 + lo ELSE hi * 65536 + lo

---------------------------------------------------------------------------
(* The AST, as eval_statement and eval_expression take it apart.           *)

VarStatement(name, value) == [k |-> "VarStatement", name |-> name, value |-> value]
ReturnStatement(expr) == [k |-> "ReturnStatement", expr |-> expr]
ExpressionStatement(expr) == [k |-> "ExpressionStatement", expr |-> expr]
BlockStatement(statements) == [k |-> "BlockStatement", statements |-> statements]

IntegerLiteral(lit) == [k |-> "IntegerLiteral", int |-> lit]
BooleanLiteral(lit) == [k |-> "BooleanLiteral", bool |-> lit]
Identifier(name) == [k |-> "Identifier", name |-> name]
BinaryExpression(left, operator, right) ==
    [k |-> "BinaryExpression", left |-> left, operator |-> operator, right |-> right]
UnaryExpression(operator, value) ==
    [k |-> "UnaryExpression", operator |-> operator, value |-> value]
GroupedExpression(expr) == [k |-> "GroupedExpression", expr |-> expr]
CallExpression(path, arguments) ==
    [k |-> "CallExpression", path |-> path, arguments |-> arguments]
\* alternative is Option<Box<Statement>>: <<>> is None, <<s>> is Some(s)
IfExpression(condition, consequence, alternative) ==
    [k |-> "IfExpression", condition |-> condition, consequence |-> consequence,
     alternative |-> alternative]
FunctionExpression(parameters, body) ==
    [k |-> "FunctionExpression", parameters |-> parameters, body |-> body]

---------------------------------------------------------------------------
(* Runtime values and errors (object.rs).  Each variant names its payload   *)
(* differently, so that values of two variants are never equal.            *)

IntegerValue(v) == [t |-> "IntegerValue", int |-> v]
BooleanValue(v) == [t |-> "BooleanValue", bool |-> v]
ReturnValue(v) == [t |-> "ReturnValue", inner |-> v]
UnitValue == [t |-> "UnitValue"]
\* Closure: env is the index of the shared frame the Rc points to
FunctionValue(parameters, body, closure_env) ==
    [t |-> "FunctionValue", parameters |-> parameters, body |-> body, env |-> closure_env]

RECURSIVE Display(_)
\* impl fmt::Display for Object: what an error message shows of a value.
\* A closure prints its parameters and body; its environment is not shown.
Display(obj) ==
    CASE obj.t = "IntegerValue" -> <<"int", obj.int>>
      [] obj.t = "BooleanValue" -> <<"bool", obj.bool>>
      [] obj.t = "FunctionValue" -> <<"fn", obj.parameters, obj.body>>
      [] obj.t = "ReturnValue" -> <<"return", Display(obj.inner)>>
      [] obj.t = "UnitValue" -> <<"()">>

NoError == [e |-> "None", msg |-> <<>>]
IdentifierNotFound(name) == [e |-> "IdentifierNotFound", msg |-> <<name>>]
TypeMismatch(msg) == [e |-> "TypeMismatch", msg |-> msg]
ModuloByZero == [e |-> "ModuloByZero", msg |-> <<>>]
DivisionByZero == [e |-> "DivisionByZero", msg |-> <<>>]
FunctionNotFound(msg) == [e |-> "FunctionNotFound", msg |-> <<msg>>]
FunctionCallWrongArity(expected, actual) ==
    [e |-> "FunctionCallWrongArity", msg |-> <<expected, actual>>]
UnsupportedOperator(operator) == [e |-> "UnsupportedOperator", msg |-> <<operator>>]
ParsingError(parser_error) == [e |-> "ParsingError", msg |-> <<parser_error>>]

\* `n as u8`
AsU8(n) == n % 256

---------------------------------------------------------------------------
(* Environment frames.  A frame is [store, outer]; outer = 0 is None.      *)

EmptyStore == [n \in {} |-> UnitValue]

\* Environment::default()
DefaultEnvironment == [store |-> EmptyStore, outer |-> 0]

RECURSIVE EnvGet(_, _, _)
\* Environment::get: walk outward from frame f until the name is bound
EnvGet(h, f, name) ==
    IF f = 0 THEN [found |-> FALSE, obj |-> UnitValue]
    ELSE IF name \in DOMAIN h[f].store THEN [found |-> TRUE, obj |-> h[f].store[name]]
    ELSE EnvGet(h, h[f].outer, name)

\* Environment::set: insert or overwrite in frame f only
EnvSet(h, f, name, obj) ==
    [h EXCEPT ![f].store =
        [n \in DOMAIN h[f].store \cup {name} |-> IF n = name THEN obj ELSE h[f].store[n]]]

---------------------------------------------------------------------------
(* The evaluator.  ev is the Evaluator's mutable state; every eval_*       *)
(* returns [kind, obj, err, ev].                                           *)

Ok(obj, ev) == [kind |-> "ok", obj |-> obj, err |-> NoError, ev |-> ev]
Err(e, ev) == [kind |-> "err", obj |-> UnitValue, err |-> e, ev |-> ev]
\* a Rust panic: the thread unwinds, no Result is returned
Panic(ev) == [kind |-> "panic", obj |-> UnitValue, err |-> NoError, ev |-> ev]

Logged(ev, node) == [ev EXCEPT !.log = Append(@, node)]

\* ghost log entry written when a block finds the pending-return flag set before
\* evaluating its statement number `before`, and clears it
FlagConsumed(before) == [k |-> "FlagConsumed", before |-> before]

RECURSIVE VisibleNames(_, _)
\* the names a lookup from frame f can resolve
VisibleNames(h, f) ==
    IF f = 0 THEN {} ELSE DOMAIN h[f].store \cup VisibleNames(h, h[f].outer)

\* ghost log entry written when a call returns to its caller: whether some name
\* the caller can see resolves differently in heap h1 (after the call) than it
\* did in heap h0 (when the callee's frame became current)
CallReturn(path, h0, h1, caller_env) ==
    [k |-> "CallReturn", path |-> path,
     caller_scope_changed |->
        \E name \in VisibleNames(h0, caller_env) \cup VisibleNames(h1, caller_env) :
            EnvGet(h0, caller_env, name) # EnvGet(h1, caller_env, name)]

\* Evaluator::create_enclosed_env: a new frame whose outer is the current one
create_enclosed_env(ev) ==
    [ev |-> [ev EXCEPT !.heap = Append(@, [store |-> EmptyStore, outer |-> ev.env])],
     frame |-> Len(ev.heap) + 1]

\* arithmetic on two i32 that can overflow: panics with overflow checks on
\* (debug build), wraps otherwise (release build)
CheckedArith(ev, overflows, wrapped) ==
    IF overflows /\ ev.overflow_checks THEN Panic(ev) ELSE Ok(IntegerValue(wrapped), ev)

\* the (IntegerValue, IntegerValue) arm of eval_binary_expression
IntegerBinary(ev, lhs, operator, rhs) ==
    CASE operator = "Plus" -> CheckedArith(ev, AddOverflows(lhs, rhs), WrappingAdd(lhs, rhs))
      [] operator = "Minus" -> CheckedArith(ev, SubOverflows(lhs, rhs), WrappingSub(lhs, rhs))
      [] operator = "Asterisk" -> CheckedArith(ev, MulOverflows(lhs, rhs), WrappingMul(lhs, rhs))
      [] operator = "Equal" -> Ok(BooleanValue(lhs = rhs), ev)
      [] operator = "NotEqual" -> Ok(BooleanValue(lhs # rhs), ev)
      [] operator = "LessThan" -> Ok(BooleanValue(lhs < rhs), ev)
      [] operator = "GreaterThan" -> Ok(BooleanValue(lhs > rhs), ev)
      [] operator = "LessThanEqual" -> Ok(BooleanValue(lhs <= rhs), ev)
      [] operator = "GreaterThanEqual" -> Ok(BooleanValue(lhs >= rhs), ev)
      [] operator = "Percentage" ->
            IF rhs = 0 THEN Err(ModuloByZero, ev)
            \* i32::MIN % -1 panics in every build profile
            ELSE IF lhs = MinInt /\ rhs = -1 THEN Panic(ev)
            ELSE Ok(IntegerValue(TruncRem(lhs, rhs)), ev)
      [] operator = "Slash" ->
            IF rhs = 0 THEN Err(DivisionByZero, ev)
            \* i32::MIN / -1 panics in every build profile
            ELSE IF lhs = MinInt /\ rhs = -1 THEN Panic(ev)
            ELSE Ok(IntegerValue(TruncDiv(lhs, rhs)), ev)
      [] OTHER -> Err(UnsupportedOperator(operator), ev)

\* the (BooleanValue, BooleanValue) arm of eval_binary_expression
BooleanBinary(ev, lhs, operator, rhs) ==
    CASE operator = "Equal" -> Ok(BooleanValue(lhs = rhs), ev)
      [] operator = "NotEqual" -> Ok(BooleanValue(lhs # rhs), ev)
      [] OTHER -> Err(UnsupportedOperator(operator), ev)

\* BinaryDispatch that coerces a boolean right operand of an integer to 0 or 1
BinaryDispatchCoercing(ev, left_obj, operator, right_obj) ==
    IF left_obj.t = "IntegerValue" /\ right_obj.t \in {"IntegerValue", "BooleanValue"}
    THEN IntegerBinary(ev, left_obj.int, operator,
                       IF right_obj.t = "IntegerValue" THEN right_obj.int
                       ELSE IF right_obj.bool THEN 1 ELSE 0)
    ELSE IF left_obj.t = "BooleanValue" /\ right_obj.t = "BooleanValue"
    THEN BooleanBinary(ev, left_obj.bool, operator, right_obj.bool)
    ELSE Err(TypeMismatch(<<"Cannot perform operation", operator,
                            Display(left_obj), Display(right_obj)>>), ev)

\* the match on (left_obj, right_obj) of eval_binary_expression
BinaryDispatch(ev, left_obj, operator, right_obj) ==
    IF left_obj.t = "IntegerValue" /\ right_obj.t = "IntegerValue"
    THEN IntegerBinary(ev, left_obj.int, operator, right_obj.int)
    ELSE IF left_obj.t = "BooleanValue" /\ right_obj.t = "BooleanValue"
    THEN BooleanBinary(ev, left_obj.bool, operator, right_obj.bool)
    ELSE Err(TypeMismatch(<<"Cannot perform operation", operator,
                            Display(left_obj), Display(right_obj)>>), ev)

\* the match on (operator, value) of eval_unary_expression
UnaryDispatch(ev, operator, obj) ==
    CASE operator = "Bang" ->
            (CASE obj.t = "IntegerValue" -> Ok(IntegerValue(-obj.int - 1), ev)
               [] obj.t = "BooleanValue" -> Ok(BooleanValue(~obj.bool), ev)
               [] OTHER -> Err(UnsupportedOperator(operator), ev))
      [] operator = "Minus" ->
            (CASE obj.t = "IntegerValue" ->
                    CheckedArith(ev, obj.int = MinInt, WrappingNeg(obj.int))
               [] OTHER -> Err(UnsupportedOperator(operator), ev))

RECURSIVE eval_statement(_, _)
RECURSIVE eval_expression(_, _)
RECURSIVE eval_block_loop(_, _, _, _)
RECURSIVE eval_arguments(_, _, _, _)
RECURSIVE bind_parameters(_, _, _, _)
RECURSIVE eval_call_expression(_, _, _)
RECURSIVE eval_if_expression(_, _, _, _)

\* the `for statement in statements` loop of the BlockStatement arm:
\* i is the next statement, obj the last evaluated object
eval_block_loop(ev, statements, i, obj) ==
    IF i > Len(statements) THEN Ok(obj, ev)
    ELSE IF ev.returned_value # <<>>
    THEN Ok(obj, Logged([ev EXCEPT !.returned_value = <<>>], FlagConsumed(i)))
    ELSE LET r == eval_statement(ev, statements[i])
         IN  IF r.kind # "ok" THEN r
             ELSE IF r.obj.t = "ReturnValue" THEN r
             ELSE eval_block_loop(r.ev, statements, i + 1, r.obj)

\* the VarStatement arm of eval_statement
eval_var_statement(ev, name, value) ==
    LET r == eval_expression(ev, value)
    IN  IF r.kind # "ok" THEN r
        ELSE Ok(UnitValue, [r.ev EXCEPT !.heap = EnvSet(@, r.ev.env, name, r.obj)])

\* the ReturnStatement arm of eval_statement
eval_return_statement(ev, expr) ==
    LET r == eval_expression(ev, expr)
    IN  IF r.kind # "ok" THEN r
        ELSE Ok(ReturnValue(r.obj), [r.ev EXCEPT !.returned_value = <<r.obj>>])

\* eval_block_statement without a frame of its own: the block's statements run
\* in the frame that was current
eval_block_statement_in_place(ev, statements) ==
    eval_block_loop(ev, statements, 1, UnitValue)

\* the BlockStatement arm of eval_statement
eval_block_statement(ev, statements) ==
    LET inner == create_enclosed_env(ev)
        outer_env == ev.env
        r == eval_block_loop([inner.ev EXCEPT !.env = inner.frame], statements, 1, UnitValue)
    IN  IF r.kind # "ok" THEN r
        ELSE Ok(r.obj, [r.ev EXCEPT !.env = outer_env])

eval_statement(ev0, statement) ==
    LET ev == Logged(ev0, statement)
    IN  CASE statement.k = "VarStatement" ->
               eval_var_statement(ev, statement.name, statement.value)
          [] statement.k = "ReturnStatement" -> eval_return_statement(ev, statement.expr)
          [] statement.k = "ExpressionStatement" -> eval_expression(ev, statement.expr)
          [] statement.k = "BlockStatement" -> eval_block_statement(ev, statement.statements)

eval_binary_expression(ev, left, operator, right) ==
    LET l == eval_expression(ev, left)
    IN  IF l.kind # "ok" THEN l
        ELSE LET r == eval_expression(l.ev, right)
             IN  IF r.kind # "ok" THEN r
                 ELSE BinaryDispatch(r.ev, l.obj, operator, r.obj)

eval_unary_expression(ev, operator, value) ==
    IF operator \notin {"Bang", "Minus"} THEN Err(UnsupportedOperator(operator), ev)
    ELSE LET r == eval_expression(ev, value)
         IN  IF r.kind # "ok" THEN r ELSE UnaryDispatch(r.ev, operator, r.obj)

\* eval_if_expression with a condition that is not a boolean taken as true
eval_if_expression_truthy(ev, condition, consequence, alternative) ==
    LET c == eval_expression(ev, condition)
    IN  IF c.kind # "ok" THEN c
        ELSE IF c.obj.t = "BooleanValue" /\ ~c.obj.bool
        THEN IF alternative # <<>> THEN eval_statement(c.ev, alternative[1])
             ELSE Ok(UnitValue, c.ev)
        ELSE eval_statement(c.ev, consequence)

eval_if_expression(ev, condition, consequence, alternative) ==
    LET c == eval_expression(ev, condition)
    IN  IF c.kind # "ok" THEN c
        ELSE IF c.obj.t = "BooleanValue"
        THEN IF c.obj.bool THEN eval_statement(c.ev, consequence)
             ELSE IF alternative # <<>> THEN eval_statement(c.ev, alternative[1])
             ELSE Ok(UnitValue, c.ev)
        ELSE Err(TypeMismatch(<<"if condition must be a boolean">>), c.ev)

eval_function_expression(ev, parameters, body) ==
    LET enclosed == create_enclosed_env(ev)
    IN  Ok(FunctionValue(parameters, body, enclosed.frame), enclosed.ev)

\* arguments.into_iter().map(|arg| self.eval_expression(arg)).collect::<Result<..>>()
\* obj of the result is the vector of argument values
eval_arguments(ev, arguments, i, acc) ==
    IF i > Len(arguments) THEN Ok(acc, ev)
    ELSE LET r == eval_expression(ev, arguments[i])
         IN  IF r.kind # "ok" THEN r
             ELSE eval_arguments(r.ev, arguments, i + 1, Append(acc, r.obj))

\* for (param, arg) in parameters.zip(arguments) { self.env.borrow_mut().set(param, arg) }
bind_parameters(h, f, parameters, arguments) ==
    IF parameters = <<>> \/ arguments = <<>> THEN h
    ELSE bind_parameters(EnvSet(h, f, Head(parameters), Head(arguments)), f,
                         Tail(parameters), Tail(arguments))

eval_call_expression(ev, path, arguments) ==
    LET function == EnvGet(ev.heap, ev.env, path)
    IN  IF ~function.found THEN Err(IdentifierNotFound(path), ev)
        ELSE IF function.obj.t # "FunctionValue"
        THEN Err(FunctionNotFound("Check if this identifier is a declared function"), ev)
        ELSE IF Len(function.obj.parameters) # Len(arguments)
        THEN Err(FunctionCallWrongArity(AsU8(Len(function.obj.parameters)),
                                        AsU8(Len(arguments))), ev)
        ELSE LET args == eval_arguments(ev, arguments, 1, <<>>)
             IN  IF args.kind # "ok" THEN args
                 ELSE LET outer_env == args.ev.env
                          switched == [args.ev EXCEPT
                                          !.env = function.obj.env,
                                          !.heap = bind_parameters(@, function.obj.env,
                                                     function.obj.parameters, args.obj)]
                          body_obj == eval_statement(switched, function.obj.body)
                      IN  IF body_obj.kind # "ok" THEN body_obj
                          ELSE Ok(body_obj.obj,
                                  Logged([body_obj.ev EXCEPT !.env = outer_env],
                                         CallReturn(path, args.ev.heap, body_obj.ev.heap,
                                                    outer_env)))

eval_expression(ev0, expr) ==
    LET ev == Logged(ev0, expr)
    IN  CASE expr.k = "IntegerLiteral" -> Ok(IntegerValue(expr.int), ev)
          [] expr.k = "BooleanLiteral" -> Ok(BooleanValue(expr.bool), ev)
          [] expr.k = "Identifier" ->
               LET got == EnvGet(ev.heap, ev.env, expr.name)
               IN  IF got.found THEN Ok(got.obj, ev)
                   ELSE Err(IdentifierNotFound(expr.name), ev)
          [] expr.k = "BinaryExpression" ->
               eval_binary_expression(ev, expr.left, expr.operator, expr.right)
          [] expr.k = "UnaryExpression" ->
               eval_unary_expression(ev, expr.operator, expr.value)
          [] expr.k = "GroupedExpression" -> eval_expression(ev, expr.expr)
          [] expr.k = "CallExpression" ->
               eval_call_expression(ev, expr.path, expr.arguments)
          [] expr.k = "IfExpression" ->
               eval_if_expression(ev, expr.condition, expr.consequence, expr.alternative)
          [] expr.k = "FunctionExpression" ->
               eval_function_expression(ev, expr.parameters, expr.body)

---------------------------------------------------------------------------
(* The parser.  The lexer is outside the model: `toks` is the sequence of  *)
(* tokens it yields before Eof, and it yields Eof forever after.  A parser *)
(* position p stands for cur = toks[p], next = toks[p + 1].                *)

Token(kind, literal) == [kind |-> kind, literal |-> literal]
EofToken == Token("Eof", <<>>)

\* the token at position i of the stream
TokenAt(toks, i) == IF i >= 1 /\ i <= Len(toks) THEN toks[i] ELSE EofToken

UnexpectedToken(token) == [pe |-> "UnexpectedToken", token |-> token]
ParseIntError(literal) == [pe |-> "ParseIntError", token |-> literal]

POk(node, p) == [ok |-> TRUE, node |-> node, p |-> p, err |-> UnexpectedToken(EofToken)]
PErr(e, p) == [ok |-> FALSE, node |-> UnitValue, p |-> p, err |-> e]

RECURSIVE ParseDigits(_, _)
\* str::parse::<i32> on a literal of decimal digits: acc * 10 + d with
\* checked arithmetic, an error once the value leaves the i32 range
ParseDigits(digits, acc) ==
    IF digits = <<>> THEN [ok |-> TRUE, v |-> acc]
    ELSE IF acc > (MaxInt - Head(digits)) \div 10 THEN [ok |-> FALSE, v |-> 0]
    ELSE ParseDigits(Tail(digits), acc * 10 + Head(digits))

\* Parser::expect_token at position p
expect_token(toks, p, token_kind) ==
    IF TokenAt(toks, p + 1).kind # token_kind
    THEN PErr(UnexpectedToken(TokenAt(toks, p + 1)), p)
    ELSE POk(TokenAt(toks, p + 1), p + 1)

\* Parser::prefix_precedence: 0 is None
prefix_precedence(op) == IF op \in {"Bang", "Minus"} THEN 5 ELSE 0

\* infix_precedence with one binding power for the four operators
infix_precedence_flat(op) ==
    IF op \in {"Plus", "Minus", "Asterisk", "Slash"} THEN <<1, 2>> ELSE <<>>

\* Parser::infix_precedence: <<>> is None, <<l, r>> is Some(Infix(l, r))
infix_precedence(op) ==
    IF op \in {"Plus", "Minus"} THEN <<1, 2>>
    ELSE IF op \in {"Asterisk", "Slash"} THEN <<3, 4>>
    ELSE <<>>

RECURSIVE parse_expression(_, _, _, _)
RECURSIVE parse_infix_loop(_, _, _, _)

\* the `while let Some(Precedence::Infix(..))` loop of parse_expression
parse_infix_loop(toks, p, expr, min_prec) ==
    LET prec == infix_precedence(TokenAt(toks, p + 1).kind)
    IN  IF prec = <<>> THEN POk(expr, p)
        ELSE IF prec[1] < min_prec THEN POk(expr, p)
        ELSE LET operator == TokenAt(toks, p + 1).kind
                 right == parse_expression(toks, p + 1, prec[2], FALSE)
             IN  IF operator \notin {"Plus", "Minus", "Slash", "Asterisk"}
                 THEN PErr(UnexpectedToken(TokenAt(toks, p + 1)), p + 1)
                 ELSE IF ~right.ok THEN right
                 ELSE parse_infix_loop(toks, right.p,
                                       BinaryExpression(expr, operator, right.node), min_prec)

parse_expression(toks, p0, min_prec, skip_eating) ==
    LET p == IF skip_eating THEN p0 ELSE p0 + 1
        cur == TokenAt(toks, p)
    IN  CASE cur.kind = "Integer" ->
               LET lit == ParseDigits(cur.literal, 0)
               IN  IF ~lit.ok THEN PErr(ParseIntError(cur.literal), p)
                   ELSE parse_infix_loop(toks, p, IntegerLiteral(lit.v), min_prec)
          [] cur.kind = "Identifier" ->
               parse_infix_loop(toks, p, Identifier(cur.literal), min_prec)
          [] cur.kind = "True" -> parse_infix_loop(toks, p, BooleanLiteral(TRUE), min_prec)
          [] cur.kind = "False" -> parse_infix_loop(toks, p, BooleanLiteral(FALSE), min_prec)
          [] cur.kind \in {"Bang", "Minus"} ->
               LET value == parse_expression(toks, p, prefix_precedence(cur.kind), FALSE)
               IN  IF ~value.ok THEN value
                   ELSE parse_infix_loop(toks, value.p,
                                         UnaryExpression(cur.kind, value.node), min_prec)
          [] OTHER -> PErr(UnexpectedToken(cur), p)

\* then expect_token(Semicolon): the tail shared by the three statement parsers
ThenSemicolon(toks, expr, statement) ==
    IF ~expr.ok THEN expr
    ELSE LET semi == expect_token(toks, expr.p, "Semicolon")
         IN  IF ~semi.ok THEN semi ELSE POk(statement, semi.p)

parse_var_statement(toks, p) ==
    LET name == expect_token(toks, p, "Identifier")
    IN  IF ~name.ok THEN name
        ELSE LET assign == expect_token(toks, name.p, "Assign")
             IN  IF ~assign.ok THEN assign
                 ELSE LET expr == parse_expression(toks, assign.p, 0, FALSE)
                      IN  ThenSemicolon(toks, expr,
                                        VarStatement(name.node.literal, expr.node))

parse_return_statement(toks, p) ==
    LET expr == parse_expression(toks, p, 0, FALSE)
    IN  ThenSemicolon(toks, expr, ReturnStatement(expr.node))

parse_expression_statement(toks, p) ==
    LET expr == parse_expression(toks, p, 0, TRUE)
    IN  ThenSemicolon(toks, expr, ExpressionStatement(expr.node))

parse_statement(toks, p) ==
    CASE TokenAt(toks, p).kind = "Let" -> parse_var_statement(toks, p)
      [] TokenAt(toks, p).kind = "Return" -> parse_return_statement(toks, p)
      [] OTHER -> parse_expression_statement(toks, p)

RECURSIVE parse_program_loop(_, _, _)
\* the `while self.cur.kind != TokenKind::Eof` loop of parse_program
parse_program_loop(toks, p, statements) ==
    IF TokenAt(toks, p).kind = "Eof" THEN POk(statements, p)
    ELSE LET st == parse_statement(toks, p)
         IN  IF ~st.ok THEN st
             ELSE parse_program_loop(toks, st.p + 1, Append(statements, st.node))

RECURSIVE parse_program_lazy_loop(_, _, _)
parse_program_lazy_loop(toks, p, statements) ==
    IF TokenAt(toks, p).kind = "Eof" THEN POk(statements, p)
    ELSE LET st == parse_statement(toks, p)
         IN  IF ~st.ok THEN (IF statements = <<>> THEN st ELSE POk(statements, p))
             ELSE parse_program_lazy_loop(toks, st.p + 1, Append(statements, st.node))

\* parse_program that hands over the statements parsed before a parse error
\* instead of failing as a whole
parse_program_lazy(toks) == parse_program_lazy_loop(toks, 1, <<>>)

\* Parser::new leaves cur on the first token; parse_program
parse_program(toks) == parse_program_loop(toks, 1, <<>>)

---------------------------------------------------------------------------
(* Evaluator::eval_program as a state machine: one step parses the whole   *)
(* input, then each step is one iteration of the `for` loop.               *)

\* the fields of Evaluator that the eval_* methods read and write
Evaluator == [heap |-> heap, env |-> env, returned_value |-> returned_value,
              log |-> log, overflow_checks |-> overflow_checks]

\* Evaluator::new: one global frame, no pending return
NewEvaluator ==
    /\ heap = <<DefaultEnvironment>>
    /\ env = 1
    /\ returned_value = <<>>
    /\ log = <<>>
    /\ objects = <<>>
    /\ error = NoError
    /\ idx = 1
    /\ overflow_checks \in BOOLEAN

\* `let program = self.parser.parse_program()?;`
ParseProgram ==
    /\ outcome = "parsing"
    /\ LET parsed == parse_program(input)
       IN  IF parsed.ok
           THEN /\ program' = parsed.node
                /\ outcome' = "running"
                /\ error' = error
           ELSE /\ program' = program
                /\ outcome' = "err"
                /\ error' = ParsingError(parsed.err)
    /\ UNCHANGED <<input, idx, objects, heap, env, returned_value, log, overflow_checks>>

\* one iteration of `for statement in program.0`: eval_statement(statement)?
\* then objects.push(obj)
EvalNextStatement ==
    /\ outcome = "running"
    /\ idx <= Len(program)
    /\ LET r == eval_statement(Evaluator, program[idx])
       IN  /\ heap' = r.ev.heap
           /\ env' = r.ev.env
           /\ returned_value' = r.ev.returned_value
           /\ log' = r.ev.log
           /\ IF r.kind = "ok"
              THEN /\ objects' = Append(objects, r.obj)
                   /\ idx' = idx + 1
                   /\ UNCHANGED <<outcome, error>>
              ELSE /\ outcome' = r.kind
                   /\ error' = r.err
                   /\ UNCHANGED <<objects, idx>>
    /\ UNCHANGED <<input, program, overflow_checks>>

\* the loop is over: Ok(objects)
ReturnObjects ==
    /\ outcome = "running"
    /\ idx > Len(program)
    /\ outcome' = "ok"
    /\ UNCHANGED <<input, program, idx, objects, error, heap, env, returned_value,
                   log, overflow_checks>>

---------------------------------------------------------------------------
(* Inputs.  MaxArg, MaxTail, MaxArity and MaxStatements bound the programs *)
(* explored; the programs are the ones the evaluator's own tests run, with *)
(* their literals and their trailing statements left free.                 *)

MaxArg == 2
MaxTail == 2
MaxArity == 2
MaxStatements == 3
MaxOperands == 3
MaxDepth == 3
\* the range of u8, for `len() as u8`
U8Range == 256

Args == 0 .. MaxArg

\* every sequence over `pool` of at most n elements
SeqsUpTo(pool, n) == UNION {[1 .. len -> pool] : len \in 0 .. n}

Call(path, arguments) == ExpressionStatement(CallExpression(path, arguments))
Ref(name) == ExpressionStatement(Identifier(name))
Lit(v) == ExpressionStatement(IntegerLiteral(v))

\* an expression of literals that evaluates to the i32 v
IntExpr(v) ==
    IF v >= 0 THEN IntegerLiteral(v)
    ELSE IF v = MinInt
    THEN BinaryExpression(UnaryExpression("Minus", IntegerLiteral(MaxInt)), "Minus",
                          IntegerLiteral(1))
    ELSE UnaryExpression("Minus", IntegerLiteral(-v))

\* let newAdder = fn(x) { fn(y) { x + y } };
LetNewAdder ==
    VarStatement("newAdder",
        FunctionExpression(<<"x">>, BlockStatement(<<
            ExpressionStatement(FunctionExpression(<<"y">>, BlockStatement(<<
                ExpressionStatement(BinaryExpression(Identifier("x"), "Plus",
                                                     Identifier("y")))>>)))>>)))

\* let addA = newAdder(a);
LetAddA(a) == VarStatement("addA", CallExpression("newAdder", <<IntegerLiteral(a)>>))
CallAddA(y) == Call("addA", <<IntegerLiteral(y)>>)
CallNewAdder(b) == Call("newAdder", <<IntegerLiteral(b)>>)

\* tests::eval_closure, followed by any calls of newAdder and addA
ClosurePrograms ==
    {<<LetNewAdder, LetAddA(a)>> \o tail :
        a \in Args,
        tail \in SeqsUpTo({CallAddA(y) : y \in Args} \cup {CallNewAdder(b) : b \in Args},
                          MaxTail)}

\* tests::eval_static_scope: let i = iv; let foo = fn(i) { i; }; foo(arg); i;
StaticScopeProgram(iv, arg) ==
    <<VarStatement("i", IntegerLiteral(iv)),
      VarStatement("foo", FunctionExpression(<<"i">>, BlockStatement(<<Ref("i")>>))),
      Call("foo", <<IntegerLiteral(arg)>>),
      Ref("i")>>

\* let i = iv; let g = fn() { i; }; let h = fn(i) { g(); }; h(arg);
FreeVariableProgram(iv, arg) ==
    <<VarStatement("i", IntegerLiteral(iv)),
      VarStatement("g", FunctionExpression(<<>>, BlockStatement(<<Ref("i")>>))),
      VarStatement("h", FunctionExpression(<<"i">>, BlockStatement(<<Call("g", <<>>)>>))),
      Call("h", <<IntegerLiteral(arg)>>)>>

\* let f = fn(n) { if n == 0 { 0; } else { f(n - 1); n; } }; f(arg);
RecursionProgram(arg) ==
    <<VarStatement("f", FunctionExpression(<<"n">>, BlockStatement(<<
        ExpressionStatement(IfExpression(
            BinaryExpression(Identifier("n"), "Equal", IntegerLiteral(0)),
            BlockStatement(<<Lit(0)>>),
            <<BlockStatement(<<
                Call("f", <<BinaryExpression(Identifier("n"), "Minus", IntegerLiteral(1))>>),
                Ref("n")>>)>>))>>))),
      Call("f", <<IntegerLiteral(arg)>>)>>

ScopePrograms ==
    {StaticScopeProgram(iv, arg) : iv \in Args, arg \in Args}
    \cup {FreeVariableProgram(iv, arg) : iv \in Args, arg \in Args}
    \cup {RecursionProgram(arg) : arg \in Args}

\* tests::eval_function_expressions: let identity = fn(x) { x; } or { return x; }
IdentityProgram(v, with_return) ==
    <<VarStatement("identity", FunctionExpression(<<"x">>, BlockStatement(<<
        IF with_return THEN ReturnStatement(Identifier("x")) ELSE Ref("x")>>))),
      Call("identity", <<IntegerLiteral(v)>>)>>

\* tests::eval_function_expression: foo returns double(x)
FooBarProgram(v) ==
    <<VarStatement("foo", FunctionExpression(<<"x">>, BlockStatement(<<
        VarStatement("double", FunctionExpression(<<"y">>, BlockStatement(<<
            ExpressionStatement(BinaryExpression(Identifier("y"), "Asterisk",
                                                 IntegerLiteral(2)))>>))),
        ReturnStatement(CallExpression("double", <<Identifier("x")>>))>>))),
      VarStatement("bar", CallExpression("foo", <<IntegerLiteral(v)>>)),
      Ref("bar")>>

ReturnPrograms ==
    {IdentityProgram(v, with_return) : v \in Args, with_return \in BOOLEAN}
    \cup {FooBarProgram(v) : v \in Args}

\* tests::eval_block_statement, with shadowing and nesting:
\*   let x = a; x; { let x = b; x; } { let x = b; { x; } }
\*   { let y = b; { let x = c; x; } } { let y = b; { let x = c; y; } x; } x; y;
BlockProgram(a, b, c) ==
    <<VarStatement("x", IntegerLiteral(a)),
      Ref("x"),
      BlockStatement(<<VarStatement("x", IntegerLiteral(b)), Ref("x")>>),
      BlockStatement(<<VarStatement("x", IntegerLiteral(b)), BlockStatement(<<Ref("x")>>)>>),
      BlockStatement(<<VarStatement("y", IntegerLiteral(b)),
                       BlockStatement(<<VarStatement("x", IntegerLiteral(c)), Ref("x")>>)>>),
      BlockStatement(<<VarStatement("y", IntegerLiteral(b)),
                       BlockStatement(<<VarStatement("x", IntegerLiteral(c)), Ref("y")>>),
                       Ref("x")>>),
      Ref("x"),
      Ref("y")>>

BlockPrograms == {BlockProgram(a, b, c) : a \in Args, b \in Args, c \in Args}

\* the i32 values tried as operands
IntSamples == {MinInt, -7, -1, 0, 1, 2, 7, MaxInt}

\* an expression whose value is the unit value: if false { }
UnitExpr == IfExpression(BooleanLiteral(FALSE), BlockStatement(<<>>), <<>>)
\* an expression whose value is a closure: fn() { }
FnExpr == FunctionExpression(<<>>, BlockStatement(<<>>))

\* operand expressions, each with what Display shows of its value
Operands ==
    {[expr |-> IntExpr(v), shown |-> <<"int", v>>] : v \in IntSamples}
    \cup {[expr |-> BooleanLiteral(b), shown |-> <<"bool", b>>] : b \in BOOLEAN}
    \cup {[expr |-> UnitExpr, shown |-> <<"()">>],
          [expr |-> FnExpr, shown |-> <<"fn", <<>>, BlockStatement(<<>>)>>]}

\* the operators eval_binary_expression gives a meaning to
IntegerOperators ==
    {"Plus", "Minus", "Asterisk", "Equal", "NotEqual", "LessThan", "GreaterThan",
     "LessThanEqual", "GreaterThanEqual", "Percentage", "Slash"}
BooleanOperators == {"Equal", "NotEqual"}
\* other TokenKinds a BinaryExpression can carry
OtherOperators == {"Bang", "Assign"}

BinaryProgram(left, operator, right) ==
    <<ExpressionStatement(BinaryExpression(left.expr, operator, right.expr))>>

BinaryPrograms ==
    {BinaryProgram(left, operator, right) :
        left \in Operands, operator \in IntegerOperators \cup OtherOperators,
        right \in Operands}

ParameterNames == <<"p1", "p2", "p3", "p4">>
ArityBody == BlockStatement(<<Lit(99)>>)

\* let f = fn(p1, .., pp) { 99; }; f(1, .., n);
ArityProgram(p, n) ==
    <<VarStatement("f", FunctionExpression(SubSeq(ParameterNames, 1, p), ArityBody)),
      Call("f", [i \in 1 .. n |-> IntegerLiteral(i)])>>

ArityPrograms ==
    {ArityProgram(p, n) : p \in 0 .. MaxArity, n \in 0 .. MaxArity}
    \cup {ArityProgram(0, U8Range)}

\* conditions, each with what Display shows of its value
Conditions ==
    {[expr |-> BooleanLiteral(b), shown |-> <<"bool", b>>] : b \in BOOLEAN}
    \cup {[expr |-> BinaryExpression(IntegerLiteral(a), "LessThan", IntegerLiteral(b)),
           shown |-> <<"bool", a < b>>] : a \in Args, b \in Args}
    \cup {[expr |-> IntegerLiteral(a), shown |-> <<"int", a>>] : a \in Args}
    \cup {[expr |-> UnitExpr, shown |-> <<"()">>],
          [expr |-> FnExpr, shown |-> <<"fn", <<>>, BlockStatement(<<>>)>>]}

Consequence == BlockStatement(<<Lit(10)>>)
Alternative == BlockStatement(<<Lit(20)>>)

\* tests::eval_if_expression: if cond { 10 } and if cond { 10 } else { 20 }
IfProgram(condition, has_else) ==
    <<ExpressionStatement(IfExpression(condition.expr, Consequence,
                                       IF has_else THEN <<Alternative>> ELSE <<>>))>>

IfPrograms == {IfProgram(condition, has_else) : condition \in Conditions, has_else \in BOOLEAN}

\* the statement that carries the return: `return 1;`, `if c { return 1; }` as an
\* expression statement, or `let y = if c { return 1; };`
ReturnForms == {"return", "if", "let"}
ReturnCarrier(form) ==
    LET returning == IfExpression(Identifier("c"),
                                  BlockStatement(<<ReturnStatement(IntegerLiteral(1))>>), <<>>)
    IN  CASE form = "return" -> ReturnStatement(IntegerLiteral(1))
          [] form = "if" -> ExpressionStatement(returning)
          [] form = "let" -> VarStatement("y", returning)

\* the statement that follows at nesting level k: `10 + k;`
Follower(k) == Lit(10 + k)

RECURSIVE NestedReturn(_, _, _)
\* the carrier under k enclosing levels, each a block `{ inner; follower; }` or
\* an if-branch `if true { inner; follower; }`
NestedReturn(form, wraps, k) ==
    IF k = 0 THEN ReturnCarrier(form)
    ELSE LET block == BlockStatement(<<NestedReturn(form, wraps, k - 1), Follower(k)>>)
         IN  IF wraps[k] = "block" THEN block
             ELSE ExpressionStatement(IfExpression(BooleanLiteral(TRUE), block, <<>>))

\* let f = fn(c) { nested; 10; }; f(cond);
ReturnNestProgram(form, wraps, cond) ==
    <<VarStatement("f", FunctionExpression(<<"c">>, BlockStatement(<<
        NestedReturn(form, wraps, Len(wraps)), Follower(0)>>))),
      Call("f", <<BooleanLiteral(cond)>>)>>

ReturnNestPrograms ==
    {ReturnNestProgram(form, wraps, cond) :
        form \in ReturnForms, wraps \in SeqsUpTo({"block", "if"}, MaxDepth), cond \in BOOLEAN}

\* { 10; 20; }
TwoLiterals == BlockStatement(<<Lit(10), Lit(20)>>)
\* what is evaluated after the call that returns: a call g(), `if true { 10; 20; }`
\* or a block statement
AfterForms == {"call", "if", "block"}
AfterReturn(after) ==
    CASE after = "call" -> Call("g", <<>>)
      [] after = "if" -> ExpressionStatement(IfExpression(BooleanLiteral(TRUE), TwoLiterals, <<>>))
      [] after = "block" -> TwoLiterals

\* let f = fn(x) { return x; }; let g = fn() { 10; 20; }; f(v); after;
ReturnThenBlockProgram(v, after) ==
    <<VarStatement("f", FunctionExpression(<<"x">>, BlockStatement(<<
        ReturnStatement(Identifier("x"))>>))),
      VarStatement("g", FunctionExpression(<<>>, TwoLiterals)),
      Call("f", <<IntegerLiteral(v)>>),
      AfterReturn(after)>>

ReturnThenBlockPrograms ==
    {ReturnThenBlockProgram(v, after) : v \in Args, after \in AfterForms}

\* { let a = v; missing; }: an unbound identifier inside a block
ErrorInBlockProgram(v) ==
    <<BlockStatement(<<VarStatement("a", IntegerLiteral(v)), Ref("missing")>>)>>

\* let f = fn(x) { x / 0; }; f(v);: a division by zero inside a function body
ErrorInBodyProgram(v) ==
    <<VarStatement("f", FunctionExpression(<<"x">>, BlockStatement(<<
        ExpressionStatement(BinaryExpression(Identifier("x"), "Slash", IntegerLiteral(0)))>>))),
      Call("f", <<IntegerLiteral(v)>>)>>

ErrorInsidePrograms ==
    {ErrorInBlockProgram(v) : v \in Args} \cup {ErrorInBodyProgram(v) : v \in Args}

Programs ==
    ErrorInsidePrograms \cup ReturnThenBlockPrograms \cup ClosurePrograms \cup ScopePrograms \cup ReturnPrograms \cup BlockPrograms
    \cup BinaryPrograms \cup ArityPrograms \cup IfPrograms \cup ReturnNestPrograms

---------------------------------------------------------------------------
(* Spec: eval_program's loop over a program given as an AST.               *)

Init ==
    /\ input = <<>>
    /\ program \in Programs
    /\ outcome = "running"
    /\ NewEvaluator

Next == EvalNextStatement \/ ReturnObjects

Spec == Init /\ [][Next]_vars

---------------------------------------------------------------------------
(* SpecEntry: Evaluator::new(source).eval_program(), from the token stream *)
(* of the source text on.                                                  *)

Kw(kind) == Token(kind, <<>>)
\* the token of a one-digit integer literal
Digit(n) == Token("Integer", <<n>>)
Name(name) == Token("Identifier", name)

\* `n;`
LiteralSource(n) == <<Digit(n), Kw("Semicolon")>>
\* `let a = 1 + 2 * 3;`
LetSource ==
    <<Kw("Let"), Name("a"), Kw("Assign"), Digit(1), Kw("Plus"), Digit(2), Kw("Asterisk"), Digit(3),
      Kw("Semicolon")>>
\* `a;`
RefSource == <<Name("a"), Kw("Semicolon")>>
\* `return a / 0;`
ReturnSource == <<Kw("Return"), Name("a"), Kw("Slash"), Digit(0), Kw("Semicolon")>>
\* `a % 1;`: the parser gives `%` no binding power
ModuloSource == <<Name("a"), Kw("Percentage"), Digit(1), Kw("Semicolon")>>
\* `(1);`: the parser has no arm for `(`
GroupedSource == <<Kw("LeftParen"), Digit(1), Kw("RightParen"), Kw("Semicolon")>>

\* the statements a source text is put together from
StatementSources ==
    {LiteralSource(n) : n \in Args}
    \cup {LetSource, RefSource, ReturnSource, ModuloSource, GroupedSource}

RECURSIVE Flatten(_)
Flatten(seqs) == IF seqs = <<>> THEN <<>> ELSE Head(seqs) \o Flatten(Tail(seqs))

\* tests::eval_function_expressions:
\*   let add = fn(x, y) { x + y; }; add(a + b, add(c, d));
AddSource(a, b, c, d) ==
    <<Kw("Let"), Name("add"), Kw("Assign"), Kw("Function"), Kw("LeftParen"), Name("x"),
      Kw("Comma"), Name("y"), Kw("RightParen"), Kw("LeftBrace"), Name("x"), Kw("Plus"),
      Name("y"), Kw("Semicolon"), Kw("RightBrace"), Kw("Semicolon"),
      Name("add"), Kw("LeftParen"), Digit(a), Kw("Plus"), Digit(b), Kw("Comma"), Name("add"),
      Kw("LeftParen"), Digit(c), Kw("Comma"), Digit(d), Kw("RightParen"), Kw("RightParen"),
      Kw("Semicolon")>>

Sources ==
    {Flatten(statements) : statements \in SeqsUpTo(StatementSources, MaxStatements)}
    \cup {AddSource(a, b, c, d) : a \in Args, b \in Args, c \in Args, d \in Args}

InitEntry ==
    /\ input \in Sources
    /\ program = <<>>
    /\ outcome = "parsing"
    /\ NewEvaluator

NextEntry == ParseProgram \/ EvalNextStatement \/ ReturnObjects

SpecEntry == InitEntry /\ [][NextEntry]_vars

---------------------------------------------------------------------------
(* SpecParse: parse_program on one statement whose expression is a chain   *)
(* of operands joined by infix operators, each operand with an optional    *)
(* prefix operator.                                                        *)

\* the operand at each position of a chain, as a token and as the node it parses to
OperandTokens == <<Digit(1), Name("b"), Kw("True"), Digit(4), Name("e"), Kw("False")>>
OperandNodes ==
    <<IntegerLiteral(1), Identifier("b"), BooleanLiteral(TRUE), IntegerLiteral(4),
      Identifier("e"), BooleanLiteral(FALSE)>>

InfixOperators == {"Plus", "Minus", "Asterisk", "Slash"}
PrefixOperators == {"Bang", "Minus"}
\* no prefix operator, or one
Prefixes == {<<>>} \cup {<<Kw(op)>> : op \in PrefixOperators}

RECURSIVE ChainFrom(_, _, _)
\* the tokens of operands i .. Len(prefixes): prefix, operand, then operator and the rest
ChainFrom(prefixes, operators, i) ==
    prefixes[i] \o <<OperandTokens[i]>>
    \o (IF i = Len(prefixes) THEN <<>>
        ELSE <<Kw(operators[i])>> \o ChainFrom(prefixes, operators, i + 1))

Chains ==
    UNION {{ChainFrom(prefixes, operators, 1) :
                prefixes \in [1 .. n -> Prefixes], operators \in [1 .. n - 1 -> InfixOperators]} :
           n \in 1 .. MaxOperands}

\* a + b * c * d + e, the chain of the comment on Precedence
PrecedenceExample ==
    <<Name("a"), Kw("Plus"), Name("b"), Kw("Asterisk"), Name("c"), Kw("Asterisk"), Name("d"),
      Kw("Plus"), Name("e")>>
\* - ! a * - b: prefix operators stacked, and a prefix after an infix minus
StackedPrefixes ==
    <<Kw("Minus"), Kw("Bang"), Name("a"), Kw("Minus"), Kw("Minus"), Name("b")>>

\* `chain;`, `let v = chain;` and `return chain;`
ChainSources ==
    UNION {{chain \o <<Kw("Semicolon")>>,
            <<Kw("Let"), Name("v"), Kw("Assign")>> \o chain \o <<Kw("Semicolon")>>,
            <<Kw("Return")>> \o chain \o <<Kw("Semicolon")>>} :
           chain \in Chains \cup {PrecedenceExample, StackedPrefixes}}

InitParse ==
    /\ input \in ChainSources
    /\ program = <<>>
    /\ outcome = "parsing"
    /\ NewEvaluator

NextParse == ParseProgram

SpecParse == InitParse /\ [][NextParse]_vars

---------------------------------------------------------------------------
(* Claims.                                                                 *)

\* the program has finished: eval_program returned or panicked
Done == outcome \in {"ok", "err", "panic"}

\* C1: closures retain their captured environment across calls: after
\* `let addA = newAdder(a);`, every later call addA(y) evaluates to a + y,
\* whatever calls of newAdder and addA are evaluated in between.
C1_ClosureRetainsEnvironment ==
    \A a \in Args, y \in Args, i \in 1 .. Len(objects) :
        (program \in ClosurePrograms /\ program[2] = LetAddA(a) /\ program[i] = CallAddA(y))
            => objects[i] = IntegerValue(a + y)

\* C2: static scoping: in tests::eval_static_scope the call yields its argument
\* and the final `i` the outer binding; a free variable of a function resolves at
\* the definition site; and no call changes a binding visible in the caller's scope.
C2_StaticScoping ==
    /\ \A iv \in Args, arg \in Args :
          /\ (program = StaticScopeProgram(iv, arg) /\ Len(objects) >= 3)
                => objects[3] = IntegerValue(arg)
          /\ (program = StaticScopeProgram(iv, arg) /\ Len(objects) >= 4)
                => objects[4] = IntegerValue(iv)
          /\ (program = FreeVariableProgram(iv, arg) /\ Len(objects) >= 4)
                => objects[4] = IntegerValue(iv)
    /\ \A i \in 1 .. Len(log) :
          log[i].k = "CallReturn" => ~log[i].caller_scope_changed

\* C3: a call of a function whose body ends with `return e;` evaluates to the
\* plain value of e, as it does when the body ends with `e;`: identity(v) yields
\* IntegerValue(v) either way, and `bar` bound to foo(v) holds the plain integer.
C3_ReturnYieldsPlainValue ==
    \A v \in Args :
        /\ \A with_return \in BOOLEAN :
              (program = IdentityProgram(v, with_return) /\ Len(objects) >= 2)
                  => objects[2] = IntegerValue(v)
        /\ (program = FooBarProgram(v) /\ Len(objects) >= 3)
              => objects[3] = IntegerValue(v * 2)

\* what the statements of BlockProgram(a, b, c) before the last evaluate to
BlockExpected(a, b, c) ==
    <<UnitValue, IntegerValue(a), IntegerValue(b), IntegerValue(b), IntegerValue(c),
      IntegerValue(a), IntegerValue(a)>>

\* C4: `let` binds in the innermost frame: a reference in the same block or in a
\* nested block yields the bound value, a `let` in a nested block shadows and never
\* changes the outer binding, and once the block has ended its names are not found
\* and the outer binding has its old value.
C4_LetBindsInnermost ==
    \A a \in Args, b \in Args, c \in Args :
        program = BlockProgram(a, b, c) =>
            /\ Len(objects) <= Len(BlockExpected(a, b, c))
            /\ \A i \in 1 .. Len(objects) : objects[i] = BlockExpected(a, b, c)[i]
            /\ Len(objects) >= 1 =>
                  /\ DOMAIN heap[1].store = {"x"}
                  /\ heap[1].store["x"] = IntegerValue(a)
            /\ outcome \in {"running", "err"}
            /\ outcome = "err" =>
                  /\ Len(objects) = Len(BlockExpected(a, b, c))
                  /\ error = IdentifierNotFound("y")

\* the whole of BlockProgram has run, with the shadowing values all different
C4_Witness ==
    \E a \in Args, b \in Args, c \in Args :
        /\ a # b /\ a # c /\ b # c
        /\ program = BlockProgram(a, b, c)
        /\ outcome = "err"
        /\ error = IdentifierNotFound("y")

\* the statements among the nodes evaluated so far, in evaluation order
IsStatement(node) ==
    node.k \in {"VarStatement", "ReturnStatement", "ExpressionStatement", "BlockStatement"}
StatementsEvaluated == SelectSeq(log, IsStatement)

\* the source holds a token the parser has no rule for
HasUnparsableToken == \E i \in 1 .. Len(input) : input[i].kind \in {"Percentage", "LeftParen"}

\* C5: eval_program parses the whole program before it evaluates anything, so a
\* parse error anywhere in the source is returned with no statement evaluated;
\* otherwise the top-level statements are evaluated in source order and the result
\* is one Object per statement, in that order, or the first evaluation error, with
\* no statement after the failing one evaluated.
C5_ParseThenEvaluateInOrder ==
    /\ outcome = "parsing" => (log = <<>> /\ objects = <<>> /\ program = <<>>)
    /\ (HasUnparsableToken /\ outcome # "parsing")
          => (outcome = "err" /\ error.e = "ParsingError")
    /\ (outcome = "err" /\ error.e = "ParsingError") => (log = <<>> /\ objects = <<>>)
    /\ (outcome = "ok" \/ outcome = "running")
          => /\ Len(objects) = idx - 1
             /\ StatementsEvaluated = SubSeq(program, 1, idx - 1)
    /\ outcome = "ok" => Len(objects) = Len(program)
    /\ (outcome = "err" /\ error.e # "ParsingError")
          => /\ idx <= Len(program)
             /\ Len(objects) = idx - 1
             /\ StatementsEvaluated = SubSeq(program, 1, idx)
             /\ error.e \in {"IdentifierNotFound", "DivisionByZero"}
    /\ \A i \in 1 .. Len(objects) :
          /\ program[i].k = "VarStatement" => objects[i] = UnitValue
          /\ (program[i].k = "ExpressionStatement" /\ program[i].expr.k = "IntegerLiteral")
                => objects[i] = IntegerValue(program[i].expr.int)

\* an evaluation error in the middle of a program: statements were evaluated
\* before it and statements follow it
C5_Witness ==
    /\ outcome = "err"
    /\ error.e = "DivisionByZero"
    /\ Len(objects) >= 1
    /\ idx < Len(program)

\* C6: the entry point accepts every expression form the evaluator supports:
\* `let add = fn(x, y) { x + y; }; add(a + b, add(c, d));` evaluates its final
\* statement to a + b + c + d.
C6_EntryPointEvaluatesAdd ==
    \A a \in Args, b \in Args, c \in Args, d \in Args :
        (input = AddSource(a, b, c, d) /\ Done)
            => /\ outcome = "ok"
               /\ Len(objects) = 2
               /\ objects[2] = IntegerValue(a + b + c + d)

\* b divides x, for b # 0, without leaving the i32 range
Divides(b, x) == IF b = MinInt THEN x \in {0, MinInt} ELSE x % Abs(b) = 0

\* |r| < |b|, without leaving the i32 range
SmallerMagnitude(r, b) ==
    IF b = MinInt THEN r # MinInt ELSE r # MinInt /\ Abs(r) < Abs(b)

\* r is the remainder of truncating a / b: a - r is a multiple of b, |r| < |b|,
\* and r is zero or has the sign of a
IsTruncRemainder(a, b, r) ==
    /\ SmallerMagnitude(r, b)
    /\ r = 0 \/ (r < 0) = (a < 0)
    /\ Divides(b, a - r)

\* C7: for all i32 a and b with b # 0, `a / b` and `a % b` evaluate to the integer
\* of truncating division and remainder; with b = 0, `a / b` fails with
\* DivisionByZero and `a % b` with ModuloByZero, and no value is produced.
C7_DivisionAndRemainder ==
    \A a \in IntSamples, b \in IntSamples, operator \in {"Slash", "Percentage"} :
        (/\ program = <<ExpressionStatement(
                            BinaryExpression(IntExpr(a), operator, IntExpr(b)))>>
         /\ Done)
            => IF b = 0
               THEN /\ outcome = "err"
                    /\ error.e = (IF operator = "Slash" THEN "DivisionByZero"
                                  ELSE "ModuloByZero")
                    /\ objects = <<>>
               ELSE /\ outcome = "ok"
                    /\ objects[1].t = "IntegerValue"
                    /\ IF operator = "Percentage"
                       THEN IsTruncRemainder(a, b, objects[1].int)
                       ELSE IsTruncRemainder(a, b, a - objects[1].int * b)

BothIntegers(left, right) == left.shown[1] = "int" /\ right.shown[1] = "int"
BothBooleans(left, right) == left.shown[1] = "bool" /\ right.shown[1] = "bool"

\* the BinaryExpression of these operands failed with a type mismatch that
\* names both operand values and the operator
FailsWithTypeMismatch(left, operator, right) ==
    /\ outcome = "err"
    /\ error.e = "TypeMismatch"
    /\ error.msg = <<"Cannot perform operation", operator, left.shown, right.shown>>
    /\ objects = <<>>

FailsWithUnsupportedOperator(operator) ==
    /\ outcome = "err"
    /\ error.e = "UnsupportedOperator"
    /\ error.msg = <<operator>>
    /\ objects = <<>>

\* C8 as stated: whenever the operand values are not both integers or both
\* booleans, or the operator is not supported for the pair (any operator other than
\* == and != on two booleans), evaluation fails with a type mismatch naming both
\* operand values and the operator.
C8_NoCoercion ==
    \A left \in Operands, right \in Operands,
       operator \in IntegerOperators \cup OtherOperators :
        (/\ program = BinaryProgram(left, operator, right)
         /\ Done
         /\ \/ ~(BothIntegers(left, right) \/ BothBooleans(left, right))
            \/ BothBooleans(left, right) /\ operator \notin BooleanOperators)
            => FailsWithTypeMismatch(left, operator, right)

\* C8 amended: operands that are not both integers or both booleans fail with a
\* type mismatch naming both values and the operator; two booleans or two integers
\* under an operator their pair does not support fail with an unsupported-operator
\* error naming the operator; in neither case is a value produced, and a supported
\* pair never fails with either error.
C8_NoCoercionAmended ==
    \A left \in Operands, right \in Operands,
       operator \in IntegerOperators \cup OtherOperators :
        (program = BinaryProgram(left, operator, right) /\ Done)
            => IF ~(BothIntegers(left, right) \/ BothBooleans(left, right))
               THEN FailsWithTypeMismatch(left, operator, right)
               ELSE IF \/ BothBooleans(left, right) /\ operator \notin BooleanOperators
                       \/ BothIntegers(left, right) /\ operator \notin IntegerOperators
               THEN FailsWithUnsupportedOperator(operator)
               ELSE outcome = "err" => error.e \in {"DivisionByZero", "ModuloByZero"}

\* `true + false` has failed, and `1 + true` is among the programs
C8_Witness ==
    /\ program = BinaryProgram([expr |-> BooleanLiteral(TRUE), shown |-> <<"bool", TRUE>>],
                               "Plus",
                               [expr |-> BooleanLiteral(FALSE), shown |-> <<"bool", FALSE>>])
    /\ outcome = "err"
    /\ error.e = "UnsupportedOperator"

\* the log holds a node of kind k
EvaluatedKind(k) == \E i \in 1 .. Len(log) : log[i].k = k

\* C9: a call of a function of p parameters with n # p arguments fails with an
\* arity error whose expected count is p and whose actual count is n, for every p
\* and n; no argument is evaluated and the body is not run.
C9_WrongArity ==
    \A p \in 0 .. MaxArity, n \in (0 .. MaxArity) \cup {U8Range} :
        (program = ArityProgram(p, n) /\ p # n /\ Done)
            => /\ outcome = "err"
               /\ error = FunctionCallWrongArity(p, n)
               /\ objects = <<UnitValue>>
               /\ ~EvaluatedKind("IntegerLiteral")
               /\ ~EvaluatedKind("BlockStatement")

\* the integer literal v has been evaluated
EvaluatedLiteral(v) ==
    \E i \in 1 .. Len(log) : log[i].k = "IntegerLiteral" /\ log[i].int = v

\* C10: an if-expression whose condition is not a boolean fails with a type
\* mismatch and evaluates neither branch; with condition true it evaluates only
\* the consequence and yields its value; with condition false it evaluates only
\* the alternative when there is one, and yields the unit value when there is none.
C10_IfExpression ==
    \A condition \in Conditions, has_else \in BOOLEAN :
        (program = IfProgram(condition, has_else) /\ Done)
            => IF condition.shown[1] # "bool"
               THEN /\ outcome = "err"
                    /\ error.e = "TypeMismatch"
                    /\ objects = <<>>
                    /\ ~EvaluatedLiteral(10) /\ ~EvaluatedLiteral(20)
               ELSE IF condition.shown[2]
               THEN /\ outcome = "ok"
                    /\ objects = <<IntegerValue(10)>>
                    /\ EvaluatedLiteral(10) /\ ~EvaluatedLiteral(20)
               ELSE /\ outcome = "ok"
                    /\ objects = <<IF has_else THEN IntegerValue(20) ELSE UnitValue>>
                    /\ ~EvaluatedLiteral(10)
                    /\ EvaluatedLiteral(20) <=> has_else

\* `if 1 { 10 } else { 20 }` has failed, and `if 2 < 1 { 10 }` is among the programs
C10_Witness ==
    /\ program = IfProgram([expr |-> IntegerLiteral(1), shown |-> <<"int", 1>>], TRUE)
    /\ outcome = "err"
    /\ error.e = "TypeMismatch"
    /\ IfProgram([expr |-> BinaryExpression(IntegerLiteral(2), "LessThan", IntegerLiteral(1)),
                  shown |-> <<"bool", FALSE>>], FALSE) \in Programs

\* a token as kind, digit and name
Lexeme(token) ==
    <<token.kind,
      IF token.kind = "Integer" THEN token.literal[1] ELSE 0,
      IF token.kind = "Identifier" THEN token.literal ELSE "">>

RECURSIVE Unparse(_)
\* the lexemes of an expression tree, left to right
Unparse(expr) ==
    CASE expr.k = "IntegerLiteral" -> <<<<"Integer", expr.int, "">>>>
      [] expr.k = "Identifier" -> <<<<"Identifier", 0, expr.name>>>>
      [] expr.k = "BooleanLiteral" -> <<<<IF expr.bool THEN "True" ELSE "False", 0, "">>>>
      [] expr.k = "UnaryExpression" -> <<<<expr.operator, 0, "">>>> \o Unparse(expr.value)
      [] expr.k = "BinaryExpression" ->
            Unparse(expr.left) \o <<<<expr.operator, 0, "">>>> \o Unparse(expr.right)

IsAdditive(expr) == expr.k = "BinaryExpression" /\ expr.operator \in {"Plus", "Minus"}
IsBinary(expr) == expr.k = "BinaryExpression"

RECURSIVE ConventionalTree(_)
\* the grouping of conventional precedence: a prefix operator applies to an operand
\* or to another prefix; * and / never have a + or - below them, nor any binary
\* expression to their right; + and - never have a + or - to their right
ConventionalTree(expr) ==
    CASE expr.k = "UnaryExpression" -> ~IsBinary(expr.value) /\ ConventionalTree(expr.value)
      [] expr.k = "BinaryExpression" ->
            /\ IF IsAdditive(expr) THEN ~IsAdditive(expr.right)
               ELSE ~IsAdditive(expr.left) /\ ~IsBinary(expr.right)
            /\ ConventionalTree(expr.left)
            /\ ConventionalTree(expr.right)
      [] OTHER -> TRUE

\* the chain of a source of ChainSources
ChainOf(toks) ==
    CASE toks[1].kind = "Let" -> SubSeq(toks, 4, Len(toks) - 1)
      [] toks[1].kind = "Return" -> SubSeq(toks, 2, Len(toks) - 1)
      [] OTHER -> SubSeq(toks, 1, Len(toks) - 1)

\* the expression of a statement of a parsed chain source
ExpressionOf(statement) ==
    IF statement.k = "VarStatement" THEN statement.value ELSE statement.expr

\* C11: for every chain of operands joined by + - * / with optional prefix ! and -,
\* the parser returns the tree of conventional precedence over exactly these tokens:
\* * and / bind tighter than + and -, equal precedence groups to the left, and a
\* prefix operator binds tighter than any infix operator; a + b * c * d + e parses
\* to (a + ((b * c) * d)) + e.
C11_ConventionalPrecedence ==
    (input \in ChainSources /\ outcome # "parsing")
        => /\ outcome = "running"
           /\ Len(program) = 1
           /\ Unparse(ExpressionOf(program[1])) = [i \in 1 .. Len(ChainOf(input)) |->
                                                      Lexeme(ChainOf(input)[i])]
           /\ ConventionalTree(ExpressionOf(program[1]))
           /\ ChainOf(input) = PrecedenceExample
                 => ExpressionOf(program[1]) =
                       BinaryExpression(
                           BinaryExpression(
                               Identifier("a"), "Plus",
                               BinaryExpression(
                                   BinaryExpression(Identifier("b"), "Asterisk", Identifier("c")),
                                   "Asterisk", Identifier("d"))),
                           "Plus", Identifier("e"))

\* `-1 * b - true;` has been parsed to ((-1) * b) - true
C11_Witness ==
    /\ input = <<Kw("Minus"), Digit(1), Kw("Asterisk"), Name("b"), Kw("Minus"), Kw("True"),
                 Kw("Semicolon")>>
    /\ outcome = "running"
    /\ program = <<ExpressionStatement(
                       BinaryExpression(
                           BinaryExpression(UnaryExpression("Minus", IntegerLiteral(1)),
                                            "Asterisk", Identifier("b")),
                           "Minus", BooleanLiteral(TRUE)))>>

\* C12: every call activation binds its parameters in a frame of its own: in
\* `let f = fn(n) { if n == 0 { 0; } else { f(n - 1); n; } }; f(arg);` the outer
\* activation still reads its own n after the nested call f(n - 1) has returned,
\* so f(arg) evaluates to arg.
C12_FreshFramePerActivation ==
    \A arg \in Args :
        (program = RecursionProgram(arg) /\ Done)
            => /\ outcome = "ok"
               /\ objects = <<UnitValue, IntegerValue(arg)>>

\* C13: once a return statement has been evaluated inside a function body, no
\* statement that follows it in any enclosing block of that body is evaluated, at
\* every nesting depth and for every mix of blocks, if-branches and let statements
\* whose value is an if-expression.
C13_NothingAfterReturn ==
    \A form \in ReturnForms, wraps \in SeqsUpTo({"block", "if"}, MaxDepth) :
        (program = ReturnNestProgram(form, wraps, TRUE) /\ Done)
            => /\ outcome = "ok"
               /\ \A k \in 0 .. Len(wraps) : ~EvaluatedLiteral(10 + k)

\* C14: the pending-return flag is consumed by the nearest enclosing block: a block
\* that finds the flag set finds it before a statement other than its first, the
\* flag having been set by the statement before; so the flag is clear whenever a
\* top-level statement has finished, and a block or function body without a return
\* that is evaluated after a call that returned evaluates all of its statements and
\* yields the value of the last.
C14_FlagConsumedByNearestBlock ==
    /\ \A i \in 1 .. Len(log) : log[i].k = "FlagConsumed" => log[i].before > 1
    /\ returned_value = <<>>
    /\ \A v \in Args, after \in AfterForms :
          (program = ReturnThenBlockProgram(v, after) /\ Done)
              => /\ outcome = "ok"
                 /\ Len(objects) = 4
                 /\ objects[4] = IntegerValue(20)
                 /\ EvaluatedLiteral(10) /\ EvaluatedLiteral(20)

\* C15: when a block statement or a function call has finished, by normal
\* completion, by a return or by an evaluation error raised inside it, the current
\* environment is the frame that was current before it started: between top-level
\* statements and after eval_program has returned, that is the frame Evaluator::new
\* made (frame 1 of the heap).
C15_EnvironmentRestored ==
    outcome \in {"running", "ok", "err"} => env = 1

============================================================================
